---- MODULE Spec2Model ----
(***************************************************************************)
(* Model of bhongy/learn-react-spectrum: the positional array-editing     *)
(* primitives of utils/array.ts (insert, move) and the keyed list state    *)
(* engine built on them (useListData).                                     *)
(*                                                                         *)
(* A JavaScript array is modelled as a TLA+ sequence; the code's positions *)
(* are zero-based and are kept zero-based here (ArrayGet / ArraySet do the *)
(* conversion).  Reading outside an array yields Undefined, writing at or  *)
(* beyond its length extends it, exactly as in JavaScript.  An array       *)
(* reference is modelled by the field ref of the value a primitive         *)
(* returns: "original" for the argument array itself, "result" for an      *)
(* array allocated by the call.                                            *)
(***************************************************************************)
EXTENDS Integers, Sequences, FiniteSets, TLC

\* ------------------------------------------------------------------ bounds

\* longest original array
MaxLen == 3
\* longest list of source positions handed to move
MaxIndices == 3
\* longest list of values handed to insert
MaxValues == 2
\* how far below 0 and above the length an index or a position may lie
Overshoot == 1

\* ------------------------------------------------------------------ values

\* The elements of an array are opaque to the primitives (type parameter T):
\* neither primitive reads, compares or copies an element, so an array of
\* pairwise distinct objects is the general input.  Pool lists the objects
\* an original array holds, in order; NewElem are the objects a caller may
\* hand to insert (two fresh ones and one the array may already hold).
Pool == <<"a", "b", "c", "d", "e", "f", "g", "h">>
NewElem == {"x", "y", "a"}

\* JavaScript's undefined: what a read outside an array or of a hole yields.
Undefined == "undefined"

\* An array position that was never written (new Array(n), or the positions
\* skipped by a write past the end).  It reads as undefined; filter, reduce
\* and forEach skip it, findIndex and spread do not.
Hole == "hole"

\* placeholder for the result before the call has returned
NoResult == [ref |-> "none", elems |-> <<>>]

VARIABLES
    pc,        \* "call" before the primitive has run, "done" after
    op,        \* which primitive is called: "move" or "insert"
    original,  \* argument original: T[]
    index,     \* argument index: number
    indices,   \* argument indices: number[] (move)
    values,    \* rest argument values: T[] (insert)
    result     \* the returned array: [ref, elems]

\* the list state engine (useListData)
VARIABLES
    state,       \* the ListState held by useState: [items, selectedKeys, filterText]
    indexItems,  \* the items array itemsByKey was memoised over at the last render
    err,         \* TRUE once an updater has thrown (a TypeError out of getKey)
    steps,       \* number of actions dispatched so far
    prev,        \* the state the last dispatched updater was applied to
    last         \* the last dispatched action, its arguments and what it reused

arrayVars == <<pc, op, original, index, indices, values, result>>
engineVars == <<state, indexItems, err, steps, prev, last>>
vars == <<arrayVars, engineVars>>

\* ------------------------------------------------------------------ helpers

\* all sequences over S of length 0..n
SeqUpTo(S, n) == UNION {[1..k -> S] : k \in 0..n}

\* Math.max / Math.min on integers
Max(a, b) == IF a >= b THEN a ELSE b
Min(a, b) == IF a <= b THEN a ELSE b

\* new Array(n): n holes
ArrayNew(n) == [k \in 1..n |-> Hole]

\* arr[i] for a zero-based i: undefined outside the array and at a hole
ArrayGet(arr, i) ==
    IF i >= 0 /\ i < Len(arr) /\ arr[i + 1] # Hole THEN arr[i + 1] ELSE Undefined

\* arr[i] = v for a zero-based i >= 0; a write at or past the length grows
\* the array, the skipped positions being holes
ArraySet(arr, i, v) ==
    IF i < Len(arr)
    THEN [arr EXCEPT ![i + 1] = v]
    ELSE arr \o [k \in 1..(i - Len(arr)) |-> Hole] \o <<v>>

\* ------------------------------------------------------------------ insert

\* mutant: the short-circuit for an empty values list is missing
InsertIsNoop_Never(vals) == FALSE

\* if (values.length === 0) return original;
InsertIsNoop(vals) == Len(vals) = 0

\* mutant: the guard against a too large index is missing
InsertClamp_NoUpper(i, n) == Max(i, 0)

\* index = Math.max(index, 0); index = Math.min(index, original.length);
InsertClamp(i, n) == Min(Max(i, 0), n)

\* mutant: off by one, the element at index stays before the gap
InsertTarget_Inclusive(oi, i, m) == IF oi <= i THEN oi ELSE oi + m

\* const ri = oi < index ? oi : oi + m;
InsertTarget(oi, i, m) == IF oi < i THEN oi ELSE oi + m

\* for (let oi = 0; oi < n; oi++) result[ri] = original[oi];
RECURSIVE InsertFillOriginal(_, _, _, _, _)
InsertFillOriginal(res, orig, i, m, oi) ==
    IF oi < Len(orig)
    THEN InsertFillOriginal(
             ArraySet(res, InsertTarget(oi, i, m), ArrayGet(orig, oi)),
             orig, i, m, oi + 1)
    ELSE res

\* for (let i = 0; i < m; i++) result[i + index] = values[i];
RECURSIVE InsertFillValues(_, _, _, _)
InsertFillValues(res, vals, i, k) ==
    IF k < Len(vals)
    THEN InsertFillValues(ArraySet(res, k + i, ArrayGet(vals, k)), vals, i, k + 1)
    ELSE res

\* export function insert<T>(original, index, ...values)
insert(orig, i, vals) ==
    IF InsertIsNoop(vals)
    THEN [ref |-> "original", elems |-> orig]
    ELSE LET n == Len(orig)
             m == Len(vals)
             idx == InsertClamp(i, n)
             r0 == ArrayNew(n + m)
             r1 == InsertFillOriginal(r0, orig, idx, m, 0)
             r2 == InsertFillValues(r1, vals, idx, 0)
         IN  [ref |-> "result", elems |-> r2]

\* ------------------------------------------------------------------ move

\* mutant: only the negative positions are filtered out
FilterInRange_NoUpper(is, n) == SelectSeq(is, LAMBDA i : i >= 0)

\* .filter((i) => i >= 0 && i < n)
FilterInRange(is, n) == SelectSeq(is, LAMBDA i : i >= 0 /\ i < n)

\* insertion of x into an ascending sequence, after the entries equal to it
RECURSIVE SortedInsert(_, _)
SortedInsert(s, x) ==
    IF s = <<>> THEN <<x>>
    ELSE IF x < Head(s) THEN <<x>> \o s
    ELSE <<Head(s)>> \o SortedInsert(Tail(s), x)

\* mutant: the positions are used in the order the caller listed them
SortAsc_Unsorted(s) == s

\* .sort((a, b) => a - b): ascending, every entry kept (none is dropped)
RECURSIVE SortAsc(_)
SortAsc(s) ==
    IF s = <<>> THEN <<>>
    ELSE SortedInsert(SortAsc(SubSeq(s, 1, Len(s) - 1)), s[Len(s)])

\* mutant: && in place of ||
MoveIsNoop_And(n, sorted) == n = 0 /\ Len(sorted) = 0

\* if (n === 0 || indices.length === 0) return original;
MoveIsNoop(n, sorted) == n = 0 \/ Len(sorted) = 0

\* const toMove = new Set(indices);
ToMove(sorted) == {sorted[k] : k \in 1..Len(sorted)}

\* mutant: off by one, the first pass runs up to and including index
RECURSIVE MoveCopyBefore_Inclusive(_, _, _, _)
MoveCopyBefore_Inclusive(st, orig, toMove, i) ==
    IF st.oi <= i
    THEN MoveCopyBefore_Inclusive(
             IF st.oi \notin toMove
             THEN [res |-> ArraySet(st.res, st.ri, ArrayGet(orig, st.oi)),
                   oi |-> st.oi + 1, ri |-> st.ri + 1]
             ELSE [st EXCEPT !.oi = @ + 1],
             orig, toMove, i)
    ELSE st

\* for (; oi < index; oi++) if (!toMove.has(oi)) result[ri++] = original[oi];
\* st = [res, oi, ri]: the array written so far and the two pointers
RECURSIVE MoveCopyBefore(_, _, _, _)
MoveCopyBefore(st, orig, toMove, i) ==
    IF st.oi < i
    THEN MoveCopyBefore(
             IF st.oi \notin toMove
             THEN [res |-> ArraySet(st.res, st.ri, ArrayGet(orig, st.oi)),
                   oi |-> st.oi + 1, ri |-> st.ri + 1]
             ELSE [st EXCEPT !.oi = @ + 1],
             orig, toMove, i)
    ELSE st

\* for (const i of indices) result[ri++] = original[i];
RECURSIVE MoveCopyMoved(_, _, _, _)
MoveCopyMoved(st, orig, sorted, k) ==
    IF k <= Len(sorted)
    THEN MoveCopyMoved(
             [st EXCEPT !.res = ArraySet(st.res, st.ri, ArrayGet(orig, sorted[k])),
                        !.ri = @ + 1],
             orig, sorted, k + 1)
    ELSE st

\* mutant: the last pass copies the moved elements too
RECURSIVE MoveCopyAfter_NoSkip(_, _, _)
MoveCopyAfter_NoSkip(st, orig, toMove) ==
    IF st.oi < Len(orig)
    THEN MoveCopyAfter_NoSkip(
             [res |-> ArraySet(st.res, st.ri, ArrayGet(orig, st.oi)),
              oi |-> st.oi + 1, ri |-> st.ri + 1],
             orig, toMove)
    ELSE st

\* for (; oi < n; oi++) if (!toMove.has(oi)) result[ri++] = original[oi];
RECURSIVE MoveCopyAfter(_, _, _)
MoveCopyAfter(st, orig, toMove) ==
    IF st.oi < Len(orig)
    THEN MoveCopyAfter(
             IF st.oi \notin toMove
             THEN [res |-> ArraySet(st.res, st.ri, ArrayGet(orig, st.oi)),
                   oi |-> st.oi + 1, ri |-> st.ri + 1]
             ELSE [st EXCEPT !.oi = @ + 1],
             orig, toMove)
    ELSE st

\* export function move<T>(original, index, indices)
move(orig, i, is) ==
    LET n == Len(orig)
        sorted == SortAsc(FilterInRange(is, n))
    IN  IF MoveIsNoop(n, sorted)
        THEN [ref |-> "original", elems |-> orig]
        ELSE LET toMove == ToMove(sorted)
                 s0 == [res |-> ArrayNew(n), oi |-> 0, ri |-> 0]
                 s1 == MoveCopyBefore(s0, orig, toMove, i)
                 s2 == MoveCopyMoved(s1, orig, sorted, 1)
                 s3 == MoveCopyAfter(s2, orig, toMove)
             IN  [ref |-> "result", elems |-> s3.res]

\* ------------------------------------------------------------------ calls

\* the engine is not in use: no list, nothing dispatched
NoState == [items |-> <<>>, selectedKeys |-> [all |-> FALSE, keys |-> {}],
            filterText |-> ""]
NoAction ==
    [name |-> "none", index |-> 0, key |-> "", keys |-> <<>>, keySet |-> {},
     vals |-> <<>>, selection |-> [all |-> FALSE, keys |-> {}], text |-> "",
     filter |-> "none",
     ref |-> [state |-> "same", items |-> "same", selectedKeys |-> "same"]]
EngineIdle ==
    /\ state = NoState
    /\ indexItems = <<>>
    /\ err = FALSE
    /\ steps = 0
    /\ prev = NoState
    /\ last = NoAction

\* the arrays a caller may hold: [], [a], [a, b], ...
Originals == {SubSeq(Pool, 1, k) : k \in 0..MaxLen}
\* the numbers a caller may pass as index and as source positions
Numbers == (0 - Overshoot)..(MaxLen + Overshoot)

\* A call of one of the two primitives with arbitrary arguments.
ArrayInit ==
    /\ pc = "call"
    /\ result = NoResult
    /\ original \in Originals
    /\ index \in Numbers
    /\ \/ /\ op = "move"
          /\ indices \in SeqUpTo(Numbers, MaxIndices)
          /\ values = <<>>
       \/ /\ op = "insert"
          /\ values \in SeqUpTo(NewElem, MaxValues)
          /\ indices = <<>>
    /\ EngineIdle

\* move(original, index, indices) runs to completion
CallMove ==
    /\ pc = "call"
    /\ op = "move"
    /\ result' = move(original, index, indices)
    /\ pc' = "done"
    /\ UNCHANGED <<op, original, index, indices, values>>
    /\ UNCHANGED engineVars

\* insert(original, index, ...values) runs to completion
CallInsert ==
    /\ pc = "call"
    /\ op = "insert"
    /\ result' = insert(original, index, values)
    /\ pc' = "done"
    /\ UNCHANGED <<op, original, index, indices, values>>
    /\ UNCHANGED engineVars

ArrayNext == CallMove \/ CallInsert

ArraySpec == ArrayInit /\ [][ArrayNext]_vars

\* ------------------------------------------------------------------ claims
\* What the primitives are specified to return, stated by position and
\* independently of the loops above.

\* the call has returned
MoveDone == pc = "done" /\ op = "move"
InsertDone == pc = "done" /\ op = "insert"

\* the entries of a list, as a set
Range(s) == {s[k] : k \in 1..Len(s)}

\* the positions of an array of length n
Positions(n) == 0..(n - 1)

\* the valid source positions a list names
ValidIn(is, n) == Range(is) \cap Positions(n)

\* no entry of the list occurs twice
IsDistinct(s) == \A j, k \in 1..Len(s) : j # k => s[j] # s[k]

\* the elements of arr at the positions in Q, in ascending position order
ElemsAt(arr, Q) ==
    LET ps == SelectSeq([k \in 1..Len(arr) |-> k - 1], LAMBDA q : q \in Q)
    IN  [k \in 1..Len(ps) |-> arr[ps[k] + 1]]

\* how often e occurs in arr
Count(arr, e) == Cardinality({k \in 1..Len(arr) : arr[k] = e})

\* every reordering of a list
Orderings(s) ==
    {[k \in 1..Len(s) |-> s[f[k]]] : f \in Permutations(1..Len(s))}

\* an index clamped into [0, n]
Clamped(i, n) == IF i < 0 THEN 0 ELSE IF i > n THEN n ELSE i

\* the three passes of move for a target t and a set Q of moved positions
Unmoved(arr, t, Q, before) ==
    ElemsAt(arr, {q \in Positions(Len(arr)) \ Q : (q < t) = before})

\* C1: for a target 0 <= t <= length(S) and a list P of distinct valid
\* positions, move(S, t, P) is the unmoved elements of positions < t, then the
\* elements at the positions of P in ascending position order, then the
\* unmoved elements of positions >= t.
C1_MoveThreePasses ==
    (/\ MoveDone
     /\ index \in 0..Len(original)
     /\ IsDistinct(indices)
     /\ Range(indices) \subseteq Positions(Len(original)))
    => result.elems =
           Unmoved(original, index, Range(indices), TRUE)
           \o ElemsAt(original, Range(indices))
           \o Unmoved(original, index, Range(indices), FALSE)

\* C1 witness: two positions listed in descending order were moved to the
\* middle of a three-element array.
C1_Witness ==
    /\ MoveDone
    /\ original = <<"a", "b", "c">>
    /\ index = 1
    /\ indices = <<2, 0>>
    /\ result.elems = <<"a", "c", "b">>

\* C2: the target index of move is clamped into [0, length(S)]: for a
\* non-empty S and a list P with at least one valid position, move(S, t, P)
\* with t > length(S) equals move(S, length(S), P), with t < 0 it equals
\* move(S, 0, P), and the result has exactly length(S) elements.  Stated
\* here for the lists P that name no position twice (a repeated position is
\* the case of C3).
C2_MoveTargetClamped ==
    (/\ MoveDone
     /\ Len(original) > 0
     /\ ValidIn(indices, Len(original)) # {}
     /\ IsDistinct(indices))
    => /\ result.elems =
              move(original, Clamped(index, Len(original)), indices).elems
       /\ Len(result.elems) = Len(original)

\* C3: for a non-empty S, a target in [0, length(S)] and any list P, also one
\* that names a position more than once, move(S, t, P) is a permutation of S:
\* it has length(S) elements and every element occurs as often as in S.
C3_MoveIsPermutation ==
    (MoveDone /\ Len(original) > 0 /\ index \in 0..Len(original))
    => /\ Len(result.elems) = Len(original)
       /\ \A e \in Range(original) \cup Range(result.elems) :
              Count(result.elems, e) = Count(original, e)

\* C4: for a set of valid source positions, move(S, t, P) is the same for
\* every ordering P of the set, and the moved elements stand in the result in
\* their original relative order.
C4_MoveOrderIndependent ==
    (/\ MoveDone
     /\ IsDistinct(indices)
     /\ Range(indices) \subseteq Positions(Len(original)))
    => /\ \A P \in Orderings(indices) : move(original, index, P) = result
       /\ SelectSeq(result.elems,
                    LAMBDA e : e \in Range(ElemsAt(original, Range(indices))))
              = ElemsAt(original, Range(indices))

\* C4 witness: three valid positions, listed neither ascending nor
\* descending, were moved.
C4_Witness ==
    /\ MoveDone
    /\ Len(original) = 3
    /\ indices = <<1, 2, 0>>
    /\ index = 2
    /\ result.ref = "result"
    /\ result.elems = original

\* C5: move(S, t, P) equals move(S, t, P') where P' is P without the
\* positions < 0 or >= length(S).
C5_MoveIgnoresOutOfRange ==
    MoveDone
    => result =
           move(original, index,
                SelectSeq(indices, LAMBDA q : q \in Positions(Len(original))))

\* C5 witness: a list naming a negative position, a valid one and one past
\* the end was moved, and the valid one alone decided the result.
C5_Witness ==
    /\ MoveDone
    /\ original = <<"a", "b", "c">>
    /\ index = 0
    /\ indices = <<0 - 1, 2, 3>>
    /\ result.elems = <<"c", "a", "b">>

\* C6: move returns S itself, not a copy, whenever S is empty or P names no
\* position in [0, length(S) - 1], for every target.
C6_MoveReturnsOriginal ==
    (MoveDone /\ (Len(original) = 0 \/ ValidIn(indices, Len(original)) = {}))
    => result = [ref |-> "original", elems |-> original]

\* C6 witness: a non-empty array was moved with a non-empty list of
\* positions none of which is valid.
C6_Witness ==
    /\ MoveDone
    /\ Len(original) = 2
    /\ indices = <<2, 0 - 1>>
    /\ result.ref = "original"

\* C7: when the target t is itself a valid source position of P, the result
\* is the unmoved elements of positions < t, then one contiguous block made
\* of the moved elements only, in ascending position order, then the unmoved
\* elements of positions >= t: the block is immediately followed by the first
\* unmoved element at or after t, or ends the sequence.
C7_MoveTargetIsSource ==
    (MoveDone /\ index \in ValidIn(indices, Len(original)))
    => LET Q == ValidIn(indices, Len(original))
           pre == Unmoved(original, index, Q, TRUE)
           post == Unmoved(original, index, Q, FALSE)
           r == result.elems
           blk == SubSeq(r, Len(pre) + 1, Len(r) - Len(post))
       IN  /\ Len(r) >= Len(pre) + Len(post) + Cardinality(Q)
           /\ SubSeq(r, 1, Len(pre)) = pre
           /\ SubSeq(r, Len(r) - Len(post) + 1, Len(r)) = post
           /\ Range(blk) = Range(ElemsAt(original, Q))
           /\ \A j, k \in 1..Len(blk) :
                  (j < k) =>
                      \E p, q \in Q : /\ p <= q
                                      /\ blk[j] = original[p + 1]
                                      /\ blk[k] = original[q + 1]

\* C7 witness: the target 2 is one of the moved positions 0 and 2 of a
\* three-element array: the block a, c follows the unmoved b and ends the
\* result.
C7_Witness ==
    /\ MoveDone
    /\ original = <<"a", "b", "c">>
    /\ index = 2
    /\ indices = <<2, 0>>
    /\ result.elems = <<"b", "a", "c">>

\* C8: for a non-empty value list V, insert(S, i, V) has length(S) + |V|
\* elements: with c the clamped index, S[0..c-1], then V in the order
\* supplied, then S[c..], every element of S being the identical object.
C8_InsertSplices ==
    (InsertDone /\ Len(values) > 0)
    => LET n == Len(original)
           m == Len(values)
           c == Clamped(index, n)
           r == result.elems
       IN  /\ Len(r) = n + m
           /\ SubSeq(r, 1, c) = SubSeq(original, 1, c)
           /\ SubSeq(r, c + 1, c + m) = values
           /\ SubSeq(r, c + m + 1, n + m) = SubSeq(original, c + 1, n)

\* C8 witness: two values were inserted in the middle of a three-element
\* array.
C8_Witness ==
    /\ InsertDone
    /\ original = <<"a", "b", "c">>
    /\ index = 1
    /\ values = <<"y", "x">>
    /\ result.elems = <<"a", "y", "x", "b", "c">>

\* C9: the index of insert is clamped into [0, length(S)]: for a non-empty V,
\* insert(S, i, V) with i < 0 equals insert(S, 0, V), which puts V first, and
\* with i > length(S) equals insert(S, length(S), V), which puts V last.
C9_InsertIndexClamped ==
    (InsertDone /\ Len(values) > 0)
    => /\ index < 0 =>
              /\ result = insert(original, 0, values)
              /\ result.elems = values \o original
       /\ index > Len(original) =>
              /\ result = insert(original, Len(original), values)
              /\ result.elems = original \o values

\* C9 witness: a value was inserted past the end of a non-empty array and
\* came last.
C9_Witness ==
    /\ InsertDone
    /\ Len(original) = 2
    /\ index > Len(original)
    /\ values = <<"x">>
    /\ result.elems = <<"a", "b", "x">>

\* C10: insert with no values returns S itself, the same reference, for every
\* S and every index, in range or not.
C10_InsertNothingReturnsOriginal ==
    (InsertDone /\ Len(values) = 0)
    => result = [ref |-> "original", elems |-> original]

\* C10 witness: nothing was inserted at an index past the end of a non-empty
\* array.
C10_Witness ==
    /\ InsertDone
    /\ Len(original) = 2
    /\ index > Len(original)
    /\ values = <<>>
    /\ result.ref = "original"

\* ------------------------------------------------------------------ engine
\* useListData: the state triple, the keyed index and the actions.

\* longest item list explored
MaxItems == 3
\* most actions dispatched in one run, in one batch or with renders between
MaxSteps == 2
\* longest list of keys handed to moveBefore / moveAfter
MaxKeys == 2

\* getKey(item) of the caller: the key of each item object.  a2 is a second
\* object with the key of a.
ItemKey ==
    [a |-> "A", b |-> "B", c |-> "C", d |-> "D", e |-> "E", f |-> "F",
     g |-> "G", h |-> "H", a2 |-> "A",
     x |-> "X", y |-> "Y", z |-> "Z", w |-> "W"]

\* the objects a caller hands to the insert family, in the order supplied
Fresh == <<"x", "y", "z", "w">>

\* getKey throws a TypeError on undefined (item.name, item.id || item.key)
GetKeyThrows(item) == item = Undefined \/ item = Hole
getKey(item) == ItemKey[item]

\* the selection: the sentinel 'all' or an explicit Set of keys
AllSel == [all |-> TRUE, keys |-> {}]
Explicit(K) == [all |-> FALSE, keys |-> K]

AllKeys == {ItemKey[n] : n \in DOMAIN ItemKey}
NullIndex == 0 - 1

\* items.reduce((m, item, index) => m.set(getKey(item), {item, index}), new Map())
\* reduce skips the holes; a later item with the same key overwrites the entry
RECURSIVE EntriesReduce(_, _, _)
EntriesReduce(its, k, m) ==
    IF k >= Len(its) THEN m
    ELSE IF its[k + 1] = Hole THEN EntriesReduce(its, k + 1, m)
    ELSE EntriesReduce(its, k + 1, [m EXCEPT ![getKey(its[k + 1])] = k])

\* the reduce calls getKey on undefined
ItemsByKeyThrows(its) == \E k \in 1..Len(its) : its[k] = Undefined

\* itemsByKey.index(key): getEntry(k)?.index, NullIndex for undefined
ItemsByKeyIndex(its, key) ==
    EntriesReduce(its, 0, [k \in AllKeys |-> NullIndex])[key]

\* itemsByKey.item(key): getEntry(k)?.item, Undefined when there is no entry
ItemsByKeyItem(its, key) ==
    LET i == ItemsByKeyIndex(its, key)
    IN  IF i = NullIndex THEN Undefined ELSE its[i + 1]

\* state.items.findIndex((item) => getKey(item) === k): the first match; it
\* visits holes as undefined, so getKey throws on the way to a later match
RECURSIVE FindIndex(_, _, _)
FindIndex(its, key, k) ==
    IF k >= Len(its) THEN [i |-> NullIndex, threw |-> FALSE]
    ELSE IF GetKeyThrows(its[k + 1]) THEN [i |-> NullIndex, threw |-> TRUE]
    ELSE IF getKey(its[k + 1]) = key THEN [i |-> k, threw |-> FALSE]
    ELSE FindIndex(its, key, k + 1)

\* ks.map((k) => state.items.findIndex(...))
FindIndices(its, ks) == [j \in 1..Len(ks) |-> FindIndex(its, ks[j], 0).i]
FindIndicesThrows(its, ks) == \E j \in 1..Len(ks) : FindIndex(its, ks[j], 0).threw

\* state.items.filter((item) => !drop.has(getKey(item))): filter skips holes
FilterOutKeys(its, drop) ==
    SelectSeq(its, LAMBDA it : it # Hole /\ getKey(it) \notin drop)

\* the filter callback calls getKey on undefined
FilterThrows(its) == \E k \in 1..Len(its) : its[k] = Undefined

\* [...state.items]: a copy in which the holes have become undefined
Spread(its) == [k \in 1..Len(its) |-> ArrayGet(its, k - 1)]

\* What an updater returns: the next state, which of its parts are the very
\* objects of the state it was given, and whether it threw instead.
Returned(st, stateRef, itemsRef, selRef) ==
    [st |-> st, threw |-> FALSE,
     ref |-> [state |-> stateRef, items |-> itemsRef, selectedKeys |-> selRef]]

\* return state;
ReturnSame(st) == Returned(st, "same", "same", "same")

\* an exception leaves the state cell as it was
Throws(st) == [ReturnSame(st) EXCEPT !.threw = TRUE]

\* (variant: the new state drops the selection)
WithItems_DropsSelection(st, r) ==
    Returned([st EXCEPT !.items = r.elems, !.selectedKeys = Explicit({})], "new",
             IF r.ref = "original" THEN "same" ELSE "new", "new")

\* {...state, items} for the items an array primitive returned
WithItems(st, r) ==
    Returned([st EXCEPT !.items = r.elems], "new",
             IF r.ref = "original" THEN "same" ELSE "new", "same")

\* (variant: the values push the last item out instead of lengthening the list)
StateInsert_PushesOut(st, i, vals) ==
    LET r == insert(st.items, i, vals)
    IN  WithItems(st, IF Len(vals) > 0 /\ Len(st.items) > 0
                      THEN [r EXCEPT !.elems = SubSeq(r.elems, 1, Len(r.elems) - 1)]
                      ELSE r)

\* function insert(state, index, ...values)
StateInsert(st, i, vals) == WithItems(st, insert(st.items, i, vals))

\* function move(state, toIndex, indices)
StateMove(st, t, is) == WithItems(st, move(st.items, t, is))

\* --- the updaters: (state, the items itemsByKey was built over) -> state

\* setSelectedKeys: {...state, selectedKeys}
DoSetSelectedKeys(st, sel) ==
    Returned([st EXCEPT !.selectedKeys = sel], "new", "same", "new")

\* setFilterText: {...state, filterText}
\* (variant: the text also filters the authoritative items)
DoSetFilterText_FiltersItems(st, text) ==
    Returned([st EXCEPT !.filterText = text,
                        !.items = SelectSeq(st.items,
                                            LAMBDA it : text = "" \/ it \in {"a", "a2"})],
             "new", "new", "same")

DoSetFilterText(st, text) ==
    Returned([st EXCEPT !.filterText = text], "new", "same", "same")

\* insert(index, ...values)
DoInsert(st, i, vals) == StateInsert(st, i, vals)

\* the position insertBefore inserts at
BeforeTarget(i) == i

\* (variant: the empty list is not treated apart)
DoInsertBefore_NoEmptyCase(st, idx, key, vals) ==
    IF ItemsByKeyThrows(idx) THEN Throws(st)
    ELSE LET i == ItemsByKeyIndex(idx, key)
         IN  IF i = NullIndex THEN ReturnSame(st)
             ELSE StateInsert(st, BeforeTarget(i), vals)

\* insertBefore(key, ...values)
DoInsertBefore(st, idx, key, vals) ==
    IF Len(st.items) = 0 THEN StateInsert(st, 0, vals)
    ELSE IF ItemsByKeyThrows(idx) THEN Throws(st)
    ELSE LET i == ItemsByKeyIndex(idx, key)
         IN  IF i = NullIndex THEN ReturnSame(st)
             ELSE StateInsert(st, BeforeTarget(i), vals)

\* the position insertAfter inserts at
AfterTarget(i) == i + 1

\* insertAfter(key, ...values)
DoInsertAfter(st, idx, key, vals) ==
    IF Len(st.items) = 0 THEN StateInsert(st, 0, vals)
    ELSE IF ItemsByKeyThrows(idx) THEN Throws(st)
    ELSE LET i == ItemsByKeyIndex(idx, key)
         IN  IF i = NullIndex THEN ReturnSame(st)
             ELSE StateInsert(st, AfterTarget(i), vals)

\* prepend(...values)
DoPrepend(st, vals) == StateInsert(st, 0, vals)

\* (variant: the values go before the last item)
DoAppend_BeforeLast(st, vals) == StateInsert(st, Len(st.items) - 1, vals)

\* append(...values)
DoAppend(st, vals) == StateInsert(st, Len(st.items), vals)

\* (variant: the `all` sentinel is not kept)
RemoveSelection_NoSentinel(sel, keySet) == Explicit(sel.keys \ keySet)

\* (variant: the keys are not deleted from the selection)
RemoveSelection_Keep(sel, keySet) == sel

\* remove: the selection after the keys were deleted from it
RemoveSelection(sel, keySet) ==
    IF sel.all THEN AllSel ELSE Explicit(sel.keys \ keySet)

\* (variant: the selection is never normalised)
RemoveNormalise_Never(its, sel) == sel

\* remove: if (items.length === 0) selection = new Set();
RemoveNormalise(its, sel) == IF Len(its) = 0 THEN Explicit({}) ELSE sel

\* (variant: only the first item with a listed key is dropped)
DoRemove_FirstOnly(st, keySet) ==
    LET hit == {p \in 1..Len(st.items) :
                   /\ st.items[p] \notin {Hole, Undefined}
                   /\ getKey(st.items[p]) \in keySet}
        m == CHOOSE p \in hit : \A q \in hit : p <= q
        its == IF hit = {} THEN st.items
               ELSE SubSeq(st.items, 1, m - 1) \o SubSeq(st.items, m + 1, Len(st.items))
        sel == RemoveNormalise(its, RemoveSelection(st.selectedKeys, keySet))
    IN  Returned([st EXCEPT !.items = its, !.selectedKeys = sel],
                 "new", "new", IF sel.all THEN "same" ELSE "new")

\* remove(...keys)
DoRemove(st, keySet) ==
    IF FilterThrows(st.items) THEN Throws(st)
    ELSE LET its == FilterOutKeys(st.items, keySet)
             sel == RemoveNormalise(its, RemoveSelection(st.selectedKeys, keySet))
         IN  Returned([st EXCEPT !.items = its, !.selectedKeys = sel],
                      "new", "new", IF sel.all THEN "same" ELSE "new")

\* (variant: the selection is kept as it was)
DoRemoveSelectedItems_KeepsSelection(st) ==
    IF st.selectedKeys.all
    THEN Returned([st EXCEPT !.items = <<>>], "new", "new", "same")
    ELSE IF FilterThrows(st.items) THEN Throws(st)
    ELSE Returned([st EXCEPT !.items = FilterOutKeys(st.items, st.selectedKeys.keys)],
                  "new", "new", "same")

\* removeSelectedItems()
DoRemoveSelectedItems(st) ==
    IF st.selectedKeys.all
    THEN Returned([st EXCEPT !.items = <<>>, !.selectedKeys = Explicit({})],
                  "new", "new", "new")
    ELSE IF FilterThrows(st.items) THEN Throws(st)
    ELSE Returned([st EXCEPT !.items = FilterOutKeys(st.items, st.selectedKeys.keys),
                             !.selectedKeys = Explicit({})],
                  "new", "new", "new")

\* [items[i], items[toIndex]] = [items[toIndex], items[i]]: both reads, then
\* the write at i, then the write at toIndex; a write at a negative toIndex
\* sets a property of the array object and changes no element
Swap(its, i, t) ==
    LET atT == ArrayGet(its, t)
        atI == ArrayGet(its, i)
        w1 == ArraySet(its, i, atT)
    IN  IF t >= 0 THEN ArraySet(w1, t, atI) ELSE w1

\* move(key, toIndex)
DoMove(st, idx, key, t) ==
    IF ItemsByKeyThrows(idx) THEN Throws(st)
    ELSE LET i == ItemsByKeyIndex(idx, key)
         IN  IF i = NullIndex THEN ReturnSame(st)
             ELSE Returned([st EXCEPT !.items = Swap(Spread(st.items), i, t)],
                           "new", "new", "same")

\* moveBefore(key, keys)
DoMoveBefore(st, idx, key, ks) ==
    IF ItemsByKeyThrows(idx) THEN Throws(st)
    ELSE LET i == ItemsByKeyIndex(idx, key)
         IN  IF i = NullIndex THEN ReturnSame(st)
             ELSE IF FindIndicesThrows(st.items, ks) THEN Throws(st)
             ELSE StateMove(st, i, FindIndices(st.items, ks))

\* moveAfter(key, keys)
DoMoveAfter(st, idx, key, ks) ==
    IF ItemsByKeyThrows(idx) THEN Throws(st)
    ELSE LET i == ItemsByKeyIndex(idx, key)
         IN  IF i = NullIndex THEN ReturnSame(st)
             ELSE IF FindIndicesThrows(st.items, ks) THEN Throws(st)
             ELSE StateMove(st, i + 1, FindIndices(st.items, ks))

\* (variant: the value is written into state.items itself, not into a copy)
DoUpdate_InPlace(st, idx, key, newValue) ==
    IF ItemsByKeyThrows(idx) THEN Throws(st)
    ELSE LET i == ItemsByKeyIndex(idx, key)
         IN  IF i = NullIndex THEN ReturnSame(st)
             ELSE Returned([st EXCEPT !.items = ArraySet(st.items, i, newValue)],
                           "new", "same", "same")

\* update(key, newValue)
DoUpdate(st, idx, key, newValue) ==
    IF ItemsByKeyThrows(idx) THEN Throws(st)
    ELSE LET i == ItemsByKeyIndex(idx, key)
         IN  IF i = NullIndex THEN ReturnSame(st)
             ELSE Returned([st EXCEPT !.items = ArraySet(Spread(st.items), i, newValue)],
                           "new", "new", "same")

\* --- what a render returns besides the state and the actions

\* the filter option of a render: not configured, or the predicate of the
\* tests, (item, text) => item.name.includes(text)
Filters == {"none", "nameIncludes"}

\* item.name.includes(filterText): every name includes the empty text, the
\* names of a and a2 include the text a
FilterHolds(item, text) == text = "" \/ (text = "a" /\ item \in {"a", "a2"})

\* the predicate reads item.name of undefined
FilteredItemsThrows(f, st) ==
    f # "none" /\ \E k \in 1..Len(st.items) : st.items[k] = Undefined

\* filteredItems: state.items itself without a filter, else
\* state.items.filter((item) => filter(item, state.filterText)), a new array;
\* filter skips the holes
FilteredItems(f, st) ==
    IF f = "none" THEN [ref |-> "same", elems |-> st.items]
    ELSE [ref |-> "new",
          elems |-> SelectSeq(st.items,
                              LAMBDA it : it # Hole /\ FilterHolds(it, st.filterText))]

\* --- the arguments a caller passes

\* the keys a caller addresses: those of the initial items and of the first
\* inserted object; a key is unknown whenever no current item has it
KeyArgs == {ItemKey[Pool[k]] : k \in 1..MaxItems} \cup {ItemKey[Fresh[1]]}

\* ...values of the insert family: none, one, several
ValueLists == {SubSeq(Fresh, 1, k) : k \in 0..MaxValues}

\* the index of insert and the toIndex of move for a list of n items
IndexArgs(n) == (0 - Overshoot)..(n + Overshoot)

\* ...keys of remove
KeySets == {K \in SUBSET KeyArgs : Cardinality(K) <= MaxKeys}

\* keys of moveBefore / moveAfter, in the order listed, repeats included
KeyLists == SeqUpTo({"A", "B"}, MaxKeys)

\* the selections a caller sets: 'all' or a Set of keys, whether or not an
\* item has them
Selections ==
    {AllSel} \cup {Explicit(K) : K \in SUBSET {"A", "B"}}
        \cup {Explicit({"A", ItemKey[Fresh[1]]})}

\* the filter texts a caller sets
Texts == {"", "a"}

\* the new value of update: a new object with the key of a, or a fresh one
UpdateValues == {"a2", Fresh[1]}

\* the keys of the items of a list
KeysOf(its) == {ItemKey[it] : it \in {its[k] : k \in 1..Len(its)} \ {Hole, Undefined}}

\* The caller keeps the keys unique (getKey must give a unique value per item
\* of the current sequence): it inserts only objects whose key no item has.
KeysStayUnique(st, vals) == \A k \in 1..Len(vals) : ItemKey[vals[k]] \notin KeysOf(st.items)

\* the array primitives are not being called
ArrayIdle ==
    /\ pc = "idle"
    /\ op = "none"
    /\ original = <<>>
    /\ index = 0
    /\ indices = <<>>
    /\ values = <<>>
    /\ result = NoResult

\* useListData(options): any initial items, selection and filter text; the
\* index of the first render is over the initial items
Init ==
    /\ ArrayIdle
    /\ state \in [items : {SubSeq(Pool, 1, k) : k \in 0..MaxItems},
                  selectedKeys : Selections,
                  filterText : Texts]
    /\ indexItems = state.items
    /\ err = FALSE
    /\ steps = 0
    /\ prev = NoState
    /\ last = NoAction

\* dispatch(updater): the updater of action a runs once on the current state
\* and returns the next one.  The index it closes over is the one of the last
\* render.
Dispatch(a, returned) ==
    /\ ~err
    /\ last.name = "none"
    /\ steps < MaxSteps
    /\ LET r == returned
       IN  /\ Len(r.st.items) <= MaxItems
           /\ state' = r.st
           /\ err' = r.threw
           /\ prev' = state
           /\ last' = [a EXCEPT !.ref = r.ref]
    /\ steps' = steps + 1
    /\ UNCHANGED <<indexItems, arrayVars>>

Act(name) == [NoAction EXCEPT !.name = name]

SetSelectedKeys ==
    \E sel \in Selections :
        Dispatch([Act("setSelectedKeys") EXCEPT !.selection = sel],
                 DoSetSelectedKeys(state, sel))

SetFilterText ==
    \E text \in Texts :
        Dispatch([Act("setFilterText") EXCEPT !.text = text],
                 DoSetFilterText(state, text))

Insert ==
    \E i \in IndexArgs(Len(state.items)), vals \in ValueLists :
        /\ KeysStayUnique(state, vals)
        /\ Dispatch([Act("insert") EXCEPT !.index = i, !.vals = vals],
                    DoInsert(state, i, vals))

InsertBefore ==
    \E key \in KeyArgs, vals \in ValueLists :
        /\ KeysStayUnique(state, vals)
        /\ Dispatch([Act("insertBefore") EXCEPT !.key = key, !.vals = vals],
                    DoInsertBefore(state, indexItems, key, vals))

InsertAfter ==
    \E key \in KeyArgs, vals \in ValueLists :
        /\ KeysStayUnique(state, vals)
        /\ Dispatch([Act("insertAfter") EXCEPT !.key = key, !.vals = vals],
                    DoInsertAfter(state, indexItems, key, vals))

Prepend ==
    \E vals \in ValueLists :
        /\ KeysStayUnique(state, vals)
        /\ Dispatch([Act("prepend") EXCEPT !.vals = vals], DoPrepend(state, vals))

\* (named AppendValues: Append is the operator of Sequences)
AppendValues ==
    \E vals \in ValueLists :
        /\ KeysStayUnique(state, vals)
        /\ Dispatch([Act("append") EXCEPT !.vals = vals], DoAppend(state, vals))

Remove ==
    \E keySet \in KeySets :
        Dispatch([Act("remove") EXCEPT !.keySet = keySet], DoRemove(state, keySet))

\* remove(...keys) dispatched right after a remove, in the same batch: the
\* observer keeps the snapshot from before the batch and notes all the keys
RemoveInBatch ==
    \E keySet \in KeySets :
        /\ ~err
        /\ last.name \in {"remove", "removeBatch"}
        /\ steps < MaxSteps
        /\ LET r == DoRemove(state, keySet)
           IN  /\ state' = r.st
               /\ err' = r.threw
               /\ last' = [last EXCEPT !.name = "removeBatch",
                                       !.keySet = last.keySet \cup keySet,
                                       !.ref = r.ref]
        /\ steps' = steps + 1
        /\ UNCHANGED <<prev, indexItems, arrayVars>>

\* remove(...keys) dispatched right after an insert-family action, with
\* exactly the keys of the inserted values: the observer keeps the snapshot
\* from before the insert
RemoveInserted ==
    /\ ~err
    /\ last.name \in {"insert", "prepend", "append", "insertBefore", "insertAfter"}
    /\ steps < MaxSteps
    /\ LET keySet == {ItemKey[last.vals[k]] : k \in 1..Len(last.vals)}
           r == DoRemove(state, keySet)
       IN  /\ state' = r.st
           /\ err' = r.threw
           /\ last' = [last EXCEPT !.name = "insertRemove",
                                   !.keySet = keySet,
                                   !.ref = r.ref]
    /\ steps' = steps + 1
    /\ UNCHANGED <<prev, indexItems, arrayVars>>

RemoveSelectedItems ==
    Dispatch(Act("removeSelectedItems"), DoRemoveSelectedItems(state))

Move ==
    \E key \in KeyArgs, t \in IndexArgs(Len(state.items)) :
        Dispatch([Act("move") EXCEPT !.key = key, !.index = t],
                 DoMove(state, indexItems, key, t))

MoveBefore ==
    \E key \in KeyArgs, ks \in KeyLists :
        Dispatch([Act("moveBefore") EXCEPT !.key = key, !.keys = ks],
                 DoMoveBefore(state, indexItems, key, ks))

MoveAfter ==
    \E key \in KeyArgs, ks \in KeyLists :
        Dispatch([Act("moveAfter") EXCEPT !.key = key, !.keys = ks],
                 DoMoveAfter(state, indexItems, key, ks))

Update ==
    \E key \in KeyArgs, v \in UpdateValues :
        /\ ItemKey[v] = key \/ ItemKey[v] \notin KeysOf(state.items)
        /\ Dispatch([Act("update") EXCEPT !.key = key, !.vals = <<v>>],
                    DoUpdate(state, indexItems, key, v))

\* The host re-renders with some filter option: useMemo rebuilds itemsByKey
\* over the current items, the visible items are derived, and the actions and
\* getItem of the new render close over the new index.  A filter predicate
\* that throws aborts the render.
Render ==
    /\ ~err
    /\ last.name = "none"
    /\ \E f \in Filters :
           LET threw == FilteredItemsThrows(f, state)
               v == IF threw THEN [ref |-> "same", elems |-> <<>>]
                    ELSE FilteredItems(f, state)
           IN  /\ indexItems' = IF threw THEN indexItems ELSE state.items
               /\ err' = threw
               /\ last' = [Act("render") EXCEPT !.filter = f,
                                                !.vals = v.elems,
                                                !.ref.items = v.ref]
    /\ prev' = NoState
    /\ UNCHANGED <<state, steps, arrayVars>>

\* getItem(key) of the last render: itemsByKey.item(key)
GetItem ==
    \E key \in KeyArgs :
        /\ ~err
        /\ last.name = "none"
        /\ LET threw == ItemsByKeyThrows(indexItems)
               item == IF threw THEN Undefined ELSE ItemsByKeyItem(indexItems, key)
           IN  /\ err' = threw
               /\ last' = [Act("getItem") EXCEPT !.key = key, !.vals = <<item>>]
        /\ prev' = NoState
        /\ UNCHANGED <<state, indexItems, steps, arrayVars>>

\* The observer lets go of the snapshot it compared the new state with.
Forget ==
    /\ last.name # "none"
    /\ prev' = NoState
    /\ last' = NoAction
    /\ UNCHANGED <<state, indexItems, err, steps, arrayVars>>

Next ==
    \/ SetSelectedKeys
    \/ SetFilterText
    \/ Insert
    \/ InsertBefore
    \/ InsertAfter
    \/ Prepend
    \/ AppendValues
    \/ Remove
    \/ RemoveInBatch
    \/ RemoveInserted
    \/ RemoveSelectedItems
    \/ Move
    \/ MoveBefore
    \/ MoveAfter
    \/ Update
    \/ Render
    \/ GetItem
    \/ Forget

Spec == Init /\ [][Next]_vars

\* ------------------------------------------------------- claims C11 .. C20
\* The observer compares the state after an action (state) with the state the
\* action was applied to (prev); last records the action, its arguments and
\* which parts of the returned state are the very objects of prev.

Did(name) == last.name = name

\* the actions that resolve a key through itemsByKey
KeyAddressed ==
    {"insertBefore", "insertAfter", "move", "moveBefore", "moveAfter", "update"}

\* the last action's updater reached its call of itemsByKey.index
ConsultedIndex ==
    /\ last.name \in KeyAddressed
    /\ last.name \in {"insertBefore", "insertAfter"} => Len(prev.items) > 0

\* every entry of the list is an item: no hole, no undefined entry
Dense(its) == \A k \in 1..Len(its) : its[k] \notin {Hole, Undefined}

\* C11: whenever the updater of a key-addressed action (insertBefore,
\* insertAfter, move, moveBefore, moveAfter, update) consults the keyed index,
\* the index is over exactly the items of the state the updater is applied
\* to, also when actions are dispatched back-to-back before a re-render.
C11_IndexNeverStale ==
    ConsultedIndex => indexItems = prev.items

\* every part of the returned state is the very object of the prior state
SameReferences ==
    last.ref = [state |-> "same", items |-> "same", selectedKeys |-> "same"]

\* C12: insertBefore and insertAfter on a non-empty list, move, moveBefore,
\* moveAfter (anchor key) and update, given a key that no item of the list
\* has, return the exact prior state: the state object, its items, its
\* selection and its filter text are the same references and nothing is
\* inserted or changed.  (Stated for lists whose every entry is an item.)
C12_UnknownKeyReturnsState ==
    (ConsultedIndex /\ Dense(prev.items) /\ last.key \notin KeysOf(prev.items))
    => /\ ~err
       /\ state = prev
       /\ SameReferences

\* an action was applied and returned (it did not throw)
Acted == last.name # "none" /\ ~err

\* C13 as stated: in every reachable state, if the item sequence is empty
\* then the selection is the empty explicit set and not the `all` sentinel.
C13_EmptyListEmptySelection ==
    Len(state.items) = 0 => state.selectedKeys = Explicit({})

\* C13 amended: an action that empties a non-empty item sequence, and every
\* remove or removeSelectedItems that leaves the sequence empty, ends with
\* the empty explicit set as selection.
C13_EmptiedListEmptySelection ==
    (/\ Acted
     /\ Len(state.items) = 0
     /\ Len(prev.items) > 0 \/ last.name \in {"remove", "removeSelectedItems"})
    => state.selectedKeys = Explicit({})

\* C13 witness: remove took the last two items of a list whose selection was
\* `all`, and the selection became the empty explicit set.
C13_Witness ==
    /\ Did("remove")
    /\ prev.items = <<"a", "b">>
    /\ prev.selectedKeys = AllSel
    /\ state.items = <<>>
    /\ state.selectedKeys = Explicit({})

C15_RemoveKeepsAllUnlessEmpty ==
    (Did("remove") /\ prev.selectedKeys.all)
    => state.selectedKeys = IF Len(state.items) > 0 THEN AllSel ELSE Explicit({})

\* C15 witness: one of three items was removed while everything was selected,
\* and the selection is still `all`.
C15_Witness ==
    /\ Did("remove")
    /\ prev.items = <<"a", "b", "c">>
    /\ prev.selectedKeys = AllSel
    /\ last.keySet = {"B"}
    /\ state.items = <<"a", "c">>
    /\ state.selectedKeys = AllSel

\* the entries of a list that are not items with one of the keys, in order
Without(its, keySet) ==
    SelectSeq(its, LAMBDA it : it \in {Hole, Undefined} \/ ItemKey[it] \notin keySet)

\* C16: remove(keys) makes the item sequence exactly the subsequence of the
\* prior items whose key is not among the given keys, in their prior order
\* and as the identical elements; keys that match no item are ignored
\* without error.
C16_RemoveKeepsTheRest ==
    Did("remove")
    => /\ ~err
       /\ state.items = Without(prev.items, last.keySet)

\* C17: removeSelectedItems always ends with the empty explicit set as
\* selection; if the prior selection was `all` the item sequence becomes
\* empty, otherwise the items are exactly the prior items whose key was not
\* selected, in their prior order.
C17_RemoveSelectedItems ==
    Did("removeSelectedItems")
    => /\ state.selectedKeys = Explicit({})
       /\ state.items = IF prev.selectedKeys.all THEN <<>>
                        ELSE Without(prev.items, prev.selectedKeys.keys)

\* the positions (from 1) of the items of a list that have the key
PositionsOf(its, key) ==
    {p \in 1..Len(its) : its[p] \notin {Hole, Undefined} /\ ItemKey[its[p]] = key}

\* the list with the values spliced in before position p (from 1)
SplicedAt(its, p, vals) ==
    SubSeq(its, 1, p - 1) \o vals \o SubSeq(its, p, Len(its))

\* C18: for a key held by an item of a non-empty list and a non-empty value
\* list, insertBefore(key, values) places the values as a contiguous block,
\* in the order supplied, immediately before that item, and insertAfter
\* immediately after it; all prior items keep their order and identity.
\* (Stated for lists whose every entry is an item.)
C18_InsertNextToKey ==
    (/\ last.name \in {"insertBefore", "insertAfter"}
     /\ Len(last.vals) > 0
     /\ Dense(prev.items)
     /\ PositionsOf(prev.items, last.key) # {})
    => \E p \in PositionsOf(prev.items, last.key) :
           state.items = SplicedAt(prev.items,
                                   IF Did("insertBefore") THEN p ELSE p + 1,
                                   last.vals)

\* C19: when the item sequence is empty, insertBefore(key, values) and
\* insertAfter(key, values) make the items exactly the given values in the
\* order supplied, for every key, whether or not any item ever had it.
C19_InsertIntoEmptyList ==
    (last.name \in {"insertBefore", "insertAfter"} /\ Len(prev.items) = 0)
    => /\ ~err
       /\ state.items = last.vals

\* C19 witness: two values were inserted before a key that no item has into
\* a list emptied earlier in the same batch, whose index still has the items.
C19_Witness ==
    /\ Did("insertBefore")
    /\ prev.items = <<>>
    /\ indexItems = <<"a", "b">>
    /\ last.key = "X"
    /\ last.vals = <<"x", "y">>
    /\ state.items = <<"x", "y">>

\* the list with the entries at positions p and q (from 1) exchanged
Exchanged(its, p, q) == [its EXCEPT ![p] = its[q], ![q] = its[p]]

\* C20: move(key, toIndex), for a key at position i and a toIndex that is a
\* valid position, exchanges the items at positions i and toIndex and leaves
\* every other position, the length, the selection and the filter text
\* unchanged.  (Stated for lists whose every entry is an item.)
C20_MoveSwaps ==
    (/\ Did("move")
     /\ Dense(prev.items)
     /\ PositionsOf(prev.items, last.key) # {}
     /\ last.index >= 0
     /\ last.index < Len(prev.items))
    => /\ \E p \in PositionsOf(prev.items, last.key) :
              state.items = Exchanged(prev.items, p, last.index + 1)
       /\ state.selectedKeys = prev.selectedKeys
       /\ state.filterText = prev.filterText

\* ------------------------------------------------------- claims C21 .. C30

\* the set of the elements of a sequence
Elems(q) == {q[k] : k \in 1..Len(q)}

\* the items of a dense list whose key is listed, in list order
Listed(its, keySet) == SelectSeq(its, LAMBDA it : ItemKey[it] \in keySet)

\* the dense list with the items of the listed keys taken out and put back
\* as one block next to the item of the anchor key: before it, or after it
Regrouped(its, anchor, keySet, after) ==
    LET rest == Without(its, keySet)
        p == CHOOSE q \in PositionsOf(rest, anchor) : TRUE
    IN  SplicedAt(rest, IF after THEN p + 1 ELSE p, Listed(its, keySet))

\* C21: for an anchor key held by an item and a list of keys that does not
\* contain the anchor, moveBefore(anchor, keys) places the items whose keys
\* are listed as one contiguous block immediately before the anchor item and
\* moveAfter immediately after it, the block in the items' prior relative
\* order; the other items keep their relative order, listed keys that match
\* no item are ignored, and the number of items is unchanged.  (Stated for
\* lists whose every entry is an item.)
C21_MoveNextToAnchor ==
    (/\ last.name \in {"moveBefore", "moveAfter"}
     /\ Dense(prev.items)
     /\ PositionsOf(prev.items, last.key) # {}
     /\ last.key \notin Elems(last.keys))
    => /\ ~err
       /\ Len(state.items) = Len(prev.items)
       /\ state.items = Regrouped(prev.items, last.key, Elems(last.keys),
                                  Did("moveAfter"))

\* C22: update(key, newValue) for a key held by the item at position i
\* produces an item sequence of the same length whose position i holds
\* newValue and whose every other position holds the identical prior element;
\* selection and filter text are unchanged.  (Stated for lists whose every
\* entry is an item.)
C22_UpdateReplacesOne ==
    (/\ Did("update")
     /\ Dense(prev.items)
     /\ PositionsOf(prev.items, last.key) # {})
    => /\ ~err
       /\ \E p \in PositionsOf(prev.items, last.key) :
              state.items = [prev.items EXCEPT ![p] = last.vals[1]]
       /\ state.selectedKeys = prev.selectedKeys
       /\ state.filterText = prev.filterText

\* the items of a list for which the filter predicate holds, in list order
Matching(its, text) ==
    SelectSeq(its, LAMBDA it : it \notin {Hole, Undefined} /\ FilterHolds(it, text))

\* C23: in every reachable state the visible item list a render returns is
\* the authoritative sequence itself (same reference) when no filter
\* predicate is configured, and otherwise exactly the subsequence, in
\* authoritative order, of the items for which the predicate holds against
\* the current filter text.
C23_VisibleItems ==
    Did("render")
    => /\ ~err
       /\ last.filter = "none" =>
              /\ last.ref.items = "same"
              /\ last.vals = state.items
       /\ last.filter # "none" =>
              last.vals = Matching(state.items, state.filterText)

\* C24: getItem(key) returns the item of the authoritative sequence (the one
\* of the render that returned getItem) whose key equals the given key, and
\* undefined when no item has that key or the sequence is empty; it never
\* raises an error.
C24_GetItem ==
    Did("getItem")
    => /\ ~err
       /\ IF PositionsOf(indexItems, last.key) = {}
          THEN last.vals = <<Undefined>>
          ELSE \E p \in PositionsOf(indexItems, last.key) :
                   last.vals = <<indexItems[p]>>

\* what the last action returned, in the shape the updaters return it
Outcome == [st |-> state, threw |-> err, ref |-> last.ref]

\* C25: prepend(values) gives the same state as insert(0, values), and
\* append(values) the same state as insert(n, values) for n the length of
\* the item sequence of the state the action is applied to: the appended
\* values end up after every existing item, also when a filter hides items
\* or earlier actions of the same batch changed the length.
C25_PrependAppend ==
    /\ Did("prepend") => Outcome = DoInsert(prev, 0, last.vals)
    /\ Did("append") =>
           LET n == Len(prev.items)
           IN  /\ Outcome = DoInsert(prev, n, last.vals)
               /\ Len(state.items) = n + Len(last.vals)
               /\ SubSeq(state.items, n + 1, Len(state.items)) = last.vals
               /\ \A k \in 0..(n - 1) :
                      ArrayGet(state.items, k) = ArrayGet(prev.items, k)

\* C25 witness: a value was appended in the batch of a remove that had
\* shortened the list, while the filter text hid the remaining item, and it
\* came last.
C25_Witness ==
    /\ Did("append")
    /\ indexItems = <<"a", "b">>
    /\ prev.items = <<"b">>
    /\ prev.filterText = "a"
    /\ FilteredItems("nameIncludes", prev).elems = <<>>
    /\ last.vals = <<"x">>
    /\ state.items = <<"b", "x">>

\* C26: move(key, toIndex) given a toIndex outside the valid positions
\* (toIndex < 0 or toIndex >= number of items) is a silent no-op: it returns
\* the identical prior state, so the item sequence keeps its length and its
\* elements.
C26_MoveOutOfRangeIsNoop ==
    (Did("move") /\ (last.index < 0 \/ last.index >= Len(prev.items)))
    => /\ ~err
       /\ state = prev
       /\ SameReferences

\* the actions that insert values
InsertFamily == {"insert", "prepend", "append", "insertBefore", "insertAfter"}

\* the last action was one whose outcome changes nothing: an insert-family
\* action with zero values, or a moveBefore / moveAfter none of whose listed
\* keys is the key of an item
ChangesNothing ==
    \/ last.name \in InsertFamily /\ Len(last.vals) = 0
    \/ /\ last.name \in {"moveBefore", "moveAfter"}
       /\ Elems(last.keys) \cap KeysOf(prev.items) = {}

\* C27: every engine action whose outcome changes nothing returns the exact
\* prior state object, not an equal-but-new one: insert, prepend, append,
\* insertBefore and insertAfter called with zero values, and moveBefore and
\* moveAfter whose listed keys match no item.
C27_NoChangeReturnsState ==
    ChangesNothing
    => /\ ~err
       /\ state = prev
       /\ last.ref.state = "same"

\* C28: remove actions dispatched back-to-back in one batch compose: after
\* remove(K1), ..., remove(Kn) with no re-render in between, the items and
\* the selection are the same as after the single action remove(K1 u ... u
\* Kn), each remove having seen the state left by the one before it; with
\* selection `all`, it ends as the empty explicit set exactly when the last
\* item is gone.
C28_RemovesCompose ==
    Did("removeBatch")
    => LET single == DoRemove(prev, last.keySet)
       IN  /\ ~err
           /\ ~single.threw
           /\ state.items = single.st.items
           /\ state.items = Without(prev.items, last.keySet)
           /\ state.selectedKeys = single.st.selectedKeys
           /\ prev.selectedKeys.all =>
                  state.selectedKeys =
                      IF Len(state.items) = 0 THEN Explicit({}) ELSE AllSel

\* C28 witness: with everything selected, the three items of a list were
\* removed by two removes of one batch and the selection ended as the empty
\* explicit set.
C28_Witness ==
    /\ Did("removeBatch")
    /\ prev.items = <<"a", "b", "c">>
    /\ prev.selectedKeys = AllSel
    /\ indexItems = <<"a", "b", "c">>
    /\ last.keySet = {"A", "B", "C"}
    /\ state.items = <<>>
    /\ state.selectedKeys = Explicit({})

\* the items of `its` that carry the key
Keyed(its, key) ==
    {its[k] : k \in {j \in 1..Len(its) :
                         its[j] \notin {Hole, Undefined} /\ getKey(its[j]) = key}}

\* a render with the filter can show the list: the filter function reads a
\* field of every entry, so no entry is undefined
Showable(its) == \A k \in 1..Len(its) : its[k] # Undefined

\* the item is in the list the last render indexed and the filter text of
\* the state keeps it out of the visible list
Hidden(item) ==
    /\ item \in Elems(indexItems)
    /\ ~FilteredItemsThrows("nameIncludes", state)
    /\ item \notin Elems(FilteredItems("nameIncludes", state).elems)

\* C29: the filter never feeds back into the authoritative state:
\* setFilterText changes only the filter text and leaves the items and the
\* selection unchanged (values and references), and key resolution finds an
\* item whatever the filter text: getItem returns the item of the rendered
\* list that has the key, and a key-addressed action given such a key does
\* not take the unknown-key exit (it never returns the state it was given).
C29_FilterNeverFeedsBack ==
    /\ Did("setFilterText")
       => /\ ~err
          /\ state = [prev EXCEPT !.filterText = last.text]
          /\ last.ref.items = "same"
          /\ last.ref.selectedKeys = "same"
    /\ (Did("getItem") /\ Showable(indexItems) /\ Keyed(indexItems, last.key) # {})
       => /\ ~err
          /\ last.vals[1] \in Keyed(indexItems, last.key)
    /\ (ConsultedIndex /\ Showable(indexItems) /\ Keyed(indexItems, last.key) # {})
       => (err \/ last.ref.state = "new")

\* the text was set to "a" on a list with a selection; items and selection
\* are as before
C29_FilterTextSet ==
    /\ Did("setFilterText")
    /\ last.text = "a"
    /\ prev.filterText = ""
    /\ state.filterText = "a"
    /\ state.items = <<"a", "b">>
    /\ state.selectedKeys = Explicit({"B"})

\* C29 witness: getItem returned an item that the filter text "a" keeps out
\* of the visible list.
C29_Witness ==
    /\ Did("getItem")
    /\ state.filterText = "a"
    /\ state.items = indexItems
    /\ last.key = "B"
    /\ last.vals = <<"b">>
    /\ Hidden("b")

\* a hidden item was updated through its key
C29_HiddenItemUpdated ==
    /\ Did("update")
    /\ ~err
    /\ prev.filterText = "a"
    /\ prev.items = indexItems
    /\ last.key = "B"
    /\ "b" \in Elems(prev.items)
    /\ "b" \notin Elems(Matching(prev.items, prev.filterText))
    /\ "b" \notin Elems(state.items)

MoveFamily == {"move", "moveBefore", "moveAfter"}

RemoveFamily == {"remove", "removeBatch", "removeSelectedItems"}

\* C30: each action changes only the components it is documented to change:
\* the insert family, the move family and update leave the selection (value
\* and reference; `all` stays `all`) and the filter text unchanged;
\* setSelectedKeys replaces only the selection, by its argument as given,
\* whether or not the keys are keys of current items; remove and
\* removeSelectedItems leave the filter text unchanged.
C30_FrameOfEachAction ==
    /\ last.name \in InsertFamily \cup MoveFamily \cup {"update"}
       => /\ state.selectedKeys = prev.selectedKeys
          /\ last.ref.selectedKeys = "same"
          /\ state.filterText = prev.filterText
    /\ Did("setSelectedKeys")
       => /\ ~err
          /\ state = [prev EXCEPT !.selectedKeys = last.selection]
          /\ last.ref.items = "same"
    /\ last.name \in RemoveFamily
       => state.filterText = prev.filterText

\* C30 witness: with everything selected and the filter text "a", a value
\* was inserted; the selection is still `all` and the text still "a".
C30_Witness ==
    /\ Did("insert")
    /\ ~err
    /\ prev.selectedKeys = AllSel
    /\ prev.filterText = "a"
    /\ Len(state.items) = Len(prev.items) + 1
    /\ state.selectedKeys = AllSel
    /\ state.filterText = "a"

\* a selection naming a key that no item has was accepted as given
C30_SelectionNotValidated ==
    /\ Did("setSelectedKeys")
    /\ state.items = <<"a">>
    /\ last.selection = Explicit({"B"})
    /\ state.selectedKeys = Explicit({"B"})

\* the actions that dispatch one updater
ListActions ==
    InsertFamily \cup MoveFamily
        \cup {"update", "remove", "removeSelectedItems", "setSelectedKeys", "setFilterText"}

\* what the holder of the state the action was applied to reads from it
\* now: an array or a set that the returned state shares with the old one
\* is one object, read with its present contents; one that the updater
\* built anew leaves the old object as it was
OldSnapshot ==
    [items |-> IF last.ref.items = "same" THEN state.items ELSE prev.items,
     selectedKeys |-> IF last.ref.selectedKeys = "same" THEN state.selectedKeys
                      ELSE prev.selectedKeys]

\* C31: no action mutates a previous snapshot in place: after any action,
\* the item sequence and the selection of the state the action was applied
\* to have exactly the contents they had before the action.
C31_SnapshotsNotMutated ==
    last.name \in ListActions
    => /\ OldSnapshot.items = prev.items
       /\ OldSnapshot.selectedKeys = prev.selectedKeys

\* C31 witness: update replaced the item of a key; the new state has the
\* new value in a new array and the old array still has the old item.
C31_Witness ==
    /\ Did("update")
    /\ ~err
    /\ last.key = "B"
    /\ prev.items = <<"a", "b">>
    /\ state.items # prev.items
    /\ last.ref.items = "new"
    /\ OldSnapshot.items = <<"a", "b">>

\* the items a caller can supply: initial items and values of actions
Supplied == DOMAIN ItemKey

\* the items of prev that a remove of the keys drops
Dropped(its, keySet) ==
    {k \in 1..Len(its) : its[k] \notin {Hole, Undefined} /\ getKey(its[k]) \in keySet}

\* C32: in every reachable state the authoritative item sequence is dense
\* and made only of caller-supplied items (never a hole or an undefined
\* entry), and the length changes only by +|values| on insert-family
\* actions and by the number of dropped items on remove actions.
C32_ItemsDenseAndSupplied ==
    /\ \A k \in 1..Len(state.items) : state.items[k] \in Supplied
    /\ last.name \in ListActions
       => LET n == Len(prev.items)
              m == Len(state.items)
          IN  /\ last.name \in InsertFamily => m \in {n, n + Len(last.vals)}
              /\ last.name \in MoveFamily \cup {"update", "setSelectedKeys", "setFilterText"}
                 => m = n
              /\ (Did("remove") /\ ~err)
                 => m = n - Cardinality(Dropped(prev.items, last.keySet))
              /\ (Did("removeSelectedItems") /\ ~err)
                 => m = IF prev.selectedKeys.all THEN 0
                        ELSE n - Cardinality(Dropped(prev.items, prev.selectedKeys.keys))

\* the selection is `all` or names only keys of current items
Consistent(st) ==
    \/ st.selectedKeys.all
    \/ st.selectedKeys.keys \subseteq {getKey(it) : it \in Elems(st.items) \ {Hole, Undefined}}

\* the last action is one of those the claim lists, applied as it says: the
\* index is that of the state the action was applied to, a move is in range
\* and an update keeps the key
AppliedInOrder ==
    /\ last.name \in InsertFamily \cup MoveFamily \cup RemoveFamily \cup {"update"}
    /\ indexItems = prev.items
    /\ Did("move") => (last.index >= 0 /\ last.index < Len(prev.items))
    /\ Did("update") => ItemKey[last.vals[1]] = last.key

\* C33: selection consistency is preserved: applied to a state with a dense
\* list whose selection is `all` or names only keys of current items, each
\* of insert, prepend, append, insertBefore, insertAfter, remove,
\* removeSelectedItems, in-range move, moveBefore, moveAfter and
\* key-preserving update (with an up-to-date index) completes and returns
\* such a state again; so the property holds after any sequence of them.
C33_SelectionConsistent ==
    (AppliedInOrder /\ Dense(prev.items) /\ Consistent(prev))
    => /\ ~err
       /\ Dense(state.items)
       /\ Consistent(state)

\* C33 witness: from [a, b] with A and B selected, a value was inserted
\* and, after a render, remove('A') left [b, x] with B selected.
C33_Witness ==
    /\ Did("remove")
    /\ steps = 2
    /\ AppliedInOrder
    /\ prev.items = <<"a", "b", "x">>
    /\ prev.selectedKeys = Explicit({"A", "B"})
    /\ last.keySet = {"A"}
    /\ state.items = <<"b", "x">>
    /\ state.selectedKeys = Explicit({"B"})

\* no two items of the list have the same key
UniqueKeys(its) ==
    \A j, k \in 1..Len(its) : j # k => getKey(its[j]) # getKey(its[k])

\* the state an insert-family action was applied to has a dense list with
\* unique keys, and the inserted values were then removed by their keys
RoundTrip == Did("insertRemove") /\ Dense(prev.items) /\ UniqueKeys(prev.items)

\* C34 (as stated): insert followed by remove is a round trip: from any
\* state with unique keys, inserting values with fresh keys and then
\* removing exactly those keys gives back the original item sequence and,
\* when the original list was non-empty, the original selection.
C34_InsertRemoveRoundTrip ==
    RoundTrip
    => /\ ~err
       /\ state.items = prev.items
       /\ Len(prev.items) > 0 => state.selectedKeys = prev.selectedKeys

\* C34 (amended): the item sequence is the original one; when the original
\* list was non-empty the selection is the original one minus the keys of
\* the inserted values, so it is the original one if it is `all` or names
\* none of those keys; when the original list was empty the selection is
\* the empty set.
C34_RoundTripMinusInsertedKeys ==
    RoundTrip
    => /\ ~err
       /\ state.items = prev.items
       /\ state.selectedKeys =
              IF Len(prev.items) = 0 THEN Explicit({})
              ELSE IF prev.selectedKeys.all THEN AllSel
              ELSE Explicit(prev.selectedKeys.keys \ last.keySet)
       /\ (/\ Len(prev.items) > 0
           /\ (prev.selectedKeys.all \/ prev.selectedKeys.keys \cap last.keySet = {}))
          => state.selectedKeys = prev.selectedKeys

\* C34 witness: a value was inserted next to item b of [a, b] with B
\* selected and then removed by its key; items and selection are back.
C34_Witness ==
    /\ RoundTrip
    /\ ~err
    /\ prev.items = <<"a", "b">>
    /\ prev.selectedKeys = Explicit({"B"})
    /\ last.vals = <<"x">>
    /\ last.key = "B"
    /\ last.keySet = {"X"}
    /\ state.items = <<"a", "b">>
    /\ state.selectedKeys = Explicit({"B"})

====
